---- MODULE Spec2Model ----
(***************************************************************************)
(* Snap Learn API (src/main.py): content listing, quiz generation and      *)
(* per-device progress accumulation over a document store.                 *)
(*                                                                         *)
(* The store holds two collections, "item" and "progress"; a document's    *)
(* _id is modelled as the natural number the store assigned at insertion   *)
(* (ids are never reused), and str(_id) as its decimal string.             *)
(* An Optional[str] that is absent is the value None.                      *)
(* An item document carries category, key and label; phonics and display   *)
(* are copied along unchanged by every handler and are left out.           *)
(* Store calls are taken to succeed whenever db is not None.               *)
(*                                                                         *)
(* update_progress makes three store calls (find_one, the write, find_one)  *)
(* and runs in a worker thread: it is three steps, Call, Write and Reread,  *)
(* between which other requests run. The other handlers make one store call *)
(* and are one step each.                                                   *)
(*                                                                         *)
(* Spec         the whole service: startup, then requests interleaving     *)
(* ContentSpec  the content endpoints over any initial item collection     *)
(* ProgressSpec update_progress requests, each starting only when none is  *)
(*              between two of its store calls (sequential requests)       *)
(* RaceSpec     update_progress requests, interleaving                     *)
(***************************************************************************)
EXTENDS Integers, Sequences, FiniteSets, TLC

VARIABLES
    db,           \* "connected" or "None": the module-level store handle
    collections,  \* names of the collections that exist in the store
    item,         \* the "item" collection, in insertion order
    progress,     \* the "progress" collection, in insertion order
    nextId,       \* the next _id the store assigns
    call,         \* the last one-step request handled: endpoint and arguments
    resp,         \* the response to it
    pc,           \* update_progress requests: position of each in the handler
    req,          \* update_progress requests: the request body (update)
    doc,          \* update_progress requests: what the first find_one returned (<<>> is None)
    upd,          \* update_progress requests: arguments computed for update_one
    rsp           \* update_progress requests: the response returned

vars == <<db, collections, item, progress, nextId, call, resp, pc, req, doc, upd, rsp>>

storeVars == <<collections, item, progress, nextId>>
procVars == <<pc, req, doc, upd, rsp>>

-----------------------------------------------------------------------------
(* Bounds of the exploration *)

\* update_progress requests, numbered in the order they arrive
NumRequests == 3

Procs == 1..NumRequests

-----------------------------------------------------------------------------
(* Python values *)

None == "<None>"

\* truth value of an Optional[str]: None and "" are falsy
Truthy(s) == s # None /\ s # ""

\* str(ObjectId)
Str(id) == ToString(id)

\* the sequences that hold the elements of set S once each, in any order
RECURSIVE Orders(_)
Orders(S) ==
    IF S = {} THEN {<<>>}
    ELSE UNION {{<<x>> \o t : t \in Orders(S \ {x})} : x \in S}

\* the results random.shuffle can leave in a list s
Shuffles(s) ==
    {[i \in 1..Len(s) |-> s[f[i]]] : f \in Orders(1..Len(s))}

\* the set of elements of a list
Range(s) == {s[i] : i \in 1..Len(s)}

\* s[:n]
Take(s, n) == SubSeq(s, 1, IF Len(s) < n THEN Len(s) ELSE n)

-----------------------------------------------------------------------------
(* The store (database.py) *)

\* insert_one: the store assigns the _id
WithId(d, id) == [_id |-> id] @@ d

\* create_document for each element of docs, in order, ids from first
InsertAll(coll, docs, first) ==
    coll \o [i \in 1..Len(docs) |-> WithId(docs[i], first + i - 1)]

\* get_documents(collection, {"category": category}) / get_documents(collection, {})
ByCategory(coll, category) ==
    SelectSeq(coll, LAMBDA d : d.category = category)

-----------------------------------------------------------------------------
(* Seed Loader *)

seed_items == <<
    [category |-> "alphabets", key |-> "A", label |-> "Apple"],
    [category |-> "alphabets", key |-> "B", label |-> "Ball"],
    [category |-> "alphabets", key |-> "C", label |-> "Cat"],
    [category |-> "numbers", key |-> "1", label |-> "One"],
    [category |-> "numbers", key |-> "2", label |-> "Two"],
    [category |-> "numbers", key |-> "3", label |-> "Three"],
    [category |-> "colors", key |-> "red", label |-> "Red"],
    [category |-> "colors", key |-> "blue", label |-> "Blue"],
    [category |-> "colors", key |-> "green", label |-> "Green"],
    [category |-> "animals", key |-> "dog", label |-> "Dog"],
    [category |-> "animals", key |-> "lion", label |-> "Lion"],
    [category |-> "animals", key |-> "bird", label |-> "Bird"],
    [category |-> "shapes", key |-> "circle", label |-> "Circle"],
    [category |-> "shapes", key |-> "square", label |-> "Square"],
    [category |-> "shapes", key |-> "triangle", label |-> "Triangle"] >>

\* SeedNeeded with the emptiness check replaced by a count against the catalog
SeedNeededTopUp ==
    /\ db # "None"
    /\ Len(item) < 15

\* the guard of ensure_seed_content: TRUE when it goes on to insert
SeedNeeded ==
    /\ db # "None"
    /\ ~("item" \in collections /\ Len(item) > 0)

ensure_seed_content ==
    IF SeedNeeded
    THEN /\ item' = InsertAll(item, seed_items, nextId)
         /\ nextId' = nextId + Len(seed_items)
         /\ collections' = collections \cup {"item"}
         /\ UNCHANGED progress
    ELSE UNCHANGED storeVars

\* startup_event: runs the seed step; the service then serves requests
\* (no response belongs to it)
Startup ==
    /\ ensure_seed_content
    /\ call' = [ep |-> "startup"]
    /\ resp' = [status |-> "none"]
    /\ UNCHANGED <<db, procVars>>

-----------------------------------------------------------------------------
(* Content Query Service *)

\* the fallback sample of list_items
sample == <<
    [category |-> "alphabets", key |-> "A", label |-> "Apple"],
    [category |-> "alphabets", key |-> "B", label |-> "Ball"],
    [category |-> "numbers", key |-> "1", label |-> "One"] >>

\* it["_id"] = str(it.get("_id")) for every document of a result
StrIds(docs) == [i \in 1..Len(docs) |-> [docs[i] EXCEPT !._id = Str(docs[i]._id)]]

\* Filtered with the category filter dropped
FilteredAll(coll, category) == coll

\* the list a `category` filter selects from coll: all of it when the filter is falsy
Filtered(coll, category) ==
    IF Truthy(category) THEN ByCategory(coll, category) ELSE coll

\* the items of the list_items response
ListedItems(category) ==
    IF db = "None"
    THEN Filtered(sample, category)
    ELSE StrIds(Filtered(item, category))

list_items(category) ==
    /\ call' = [ep |-> "list_items", category |-> category]
    /\ resp' = [items |-> ListedItems(category)]
    /\ UNCHANGED <<db, storeVars, procVars>>

\* the default list of get_categories
DefaultCategories == <<
    "alphabets", "numbers", "colors", "shapes", "animals",
    "fruits", "vegetables", "birds", "days", "months",
    "family", "body", "seasons", "weather", "habits", "opposites" >>

\* the category names in the order sorted() gives them
Alphabetical == <<
    "alphabets", "animals", "birds", "body", "colors", "days", "family",
    "fruits", "habits", "months", "numbers", "opposites", "seasons",
    "shapes", "vegetables", "weather" >>

\* sorted(cats) for a set of category names
Sorted(cats) == SelectSeq(Alphabetical, LAMBDA c : c \in cats)

\* db["item"].distinct("category")
DistinctCategories == {item[i].category : i \in 1..Len(item)}

Categories ==
    IF db # "None" /\ "item" \in collections /\ DistinctCategories # {}
    THEN Sorted(DistinctCategories)
    ELSE DefaultCategories

get_categories ==
    /\ call' = [ep |-> "get_categories"]
    /\ resp' = [categories |-> Categories]
    /\ UNCHANGED <<db, storeVars, procVars>>

-----------------------------------------------------------------------------
(* Quiz Generator *)

\* the fallback pool of generate_quiz
FallbackPool == <<
    [category |-> "colors", key |-> "red", label |-> "Red"],
    [category |-> "colors", key |-> "blue", label |-> "Blue"],
    [category |-> "colors", key |-> "green", label |-> "Green"],
    [category |-> "colors", key |-> "yellow", label |-> "Yellow"] >>

\* the items the store returns for the category, [] without a store
StoredPool(category) ==
    IF db # "None" THEN ByCategory(item, category) ELSE <<>>

\* base_items: the working set of generate_quiz
BaseItems(category) ==
    IF StoredPool(category) # <<>> THEN StoredPool(category) ELSE FallbackPool

\* Wrongs with the correct item left among the candidates
WrongsWithCorrect(base, c) == base

\* [i for i in base_items if i is not correct], correct being base_items[c]
Wrongs(base, c) ==
    [j \in 1..(Len(base) - 1) |-> IF j < c THEN base[j] ELSE base[j + 1]]

\* the number of distractors kept: wrongs[:3]
MaxWrongs == 3

\* one entry of the "options" list
Option(o) == [label |-> o.label, key |-> o.key]

\* the response for one outcome of the random choices
QuizResponse(correct, options) ==
    [question |-> <<"Select: ", correct.label>>,
     options |-> [i \in 1..Len(options) |-> Option(options[i])],
     answer |-> [key |-> correct.key]]

\* the responses the random choices can produce: correct = random.choice(base_items),
\* random.shuffle(wrongs), options = [correct] + wrongs[:3], random.shuffle(options)
QuizOutcomes(category) ==
    LET base == BaseItems(category) IN
    UNION {UNION {{QuizResponse(base[c], options) :
                      options \in Shuffles(<<base[c]>> \o Take(wrongs, MaxWrongs))} :
                  wrongs \in Shuffles(Wrongs(base, c))} :
           c \in 1..Len(base)}

generate_quiz(category) ==
    /\ call' = [ep |-> "generate_quiz", category |-> category]
    /\ resp' \in QuizOutcomes(category)
    /\ UNCHANGED <<db, storeVars, procVars>>

-----------------------------------------------------------------------------
(* Progress Tracker *)

\* NoStore with the None check missing
NoStoreNever == FALSE

\* `if db is None` of update_progress and get_progress
NoStore == db = "None"

\* col.find_one({"device_id": device_id, "category": category}): <<>> is None
find_one(coll, device_id, category) ==
    Take(SelectSeq(coll, LAMBDA d : d.device_id = device_id /\ d.category = category), 1)

\* BadgeLists with the badge appended to the list, no set in between
BadgeListsAppend(d, update) ==
    {d.badges \o (IF Truthy(update.badge) THEN <<update.badge>> ELSE <<>>)}

\* list(badges) after badges = set(doc["badges"]) and the conditional add:
\* the set's elements once each, in an order the set's hashing decides
BadgeLists(d, update) ==
    Orders(Range(d.badges) \cup (IF Truthy(update.badge) THEN {update.badge} ELSE {}))

\* UpdateArgs with the request's numbers stored in place of the sums
UpdateArgsOverwrite(d, update, badges) ==
    [_id |-> d._id, points |-> update.points, correct |-> update.correct,
     attempts |-> update.attempts, badges |-> badges]

\* the filter and $set document passed to update_one, for the document d read
UpdateArgs(d, update, badges) ==
    [_id |-> d._id,
     points |-> d.points + update.points,
     correct |-> d.correct + update.correct,
     attempts |-> d.attempts + update.attempts,
     badges |-> badges]

\* update_one with a filter that matches every document
update_one_every(coll, u) ==
    [i \in 1..Len(coll) |->
        [coll[i] EXCEPT !.points = u.points, !.correct = u.correct,
                        !.attempts = u.attempts, !.badges = u.badges]]

\* col.update_one({"_id": u._id}, {"$set": {...}})
update_one(coll, u) ==
    [i \in 1..Len(coll) |->
        IF coll[i]._id = u._id
        THEN [coll[i] EXCEPT !.points = u.points, !.correct = u.correct,
                             !.attempts = u.attempts, !.badges = u.badges]
        ELSE coll[i]]

\* payload = update.model_dump(); payload["badges"] = [update.badge] if update.badge else []
Payload(update) ==
    [device_id |-> update.device_id, category |-> update.category,
     correct |-> update.correct, attempts |-> update.attempts,
     points |-> update.points, badge |-> update.badge,
     badges |-> IF Truthy(update.badge) THEN <<update.badge>> ELSE <<>>]

\* create_document("progress", payload)
create_document(coll, payload, id) == Append(coll, WithId(payload, id))

\* the fallback response without a store
Ack == [status |-> "ok",
        message |-> "Progress stored in-memory-disabled env"]

\* the final find_one, doc["_id"] = str(doc["_id"]) and the response
Reply(coll, update) ==
    LET d == find_one(coll, update.device_id, update.category)[1] IN
    [status |-> "ok",
     progress |-> [d EXCEPT !._id = Str(d._id)]]

\* the (device_id, category) of a request or of a record
PairOf(r) == <<r.device_id, r.category>>

\* the documents get_progress finds
FoundProgress(device_id, category) ==
    SelectSeq(progress, LAMBDA d : /\ d.device_id = device_id
                                   /\ (Truthy(category) => d.category = category))

get_progress(device_id, category) ==
    /\ call' = [ep |-> "get_progress", device_id |-> device_id, category |-> category]
    /\ resp' = [progress |-> IF NoStore THEN <<>>
                             ELSE StrIds(FoundProgress(device_id, category))]
    /\ UNCHANGED <<db, storeVars, procVars>>

-----------------------------------------------------------------------------
(* update_progress: one step per store operation *)

\* the handler starts: the db check, the first find_one and the local arithmetic
\* (request p arrives after the requests numbered below it)
Call(p, update) ==
    /\ pc[p] = "idle"
    /\ \A q \in Procs : q < p => pc[q] # "idle"
    /\ req' = [req EXCEPT ![p] = <<update>>]
    /\ IF NoStore
       THEN /\ rsp' = [rsp EXCEPT ![p] = Ack]
            /\ pc' = [pc EXCEPT ![p] = "done"]
            /\ UNCHANGED <<doc, upd>>
       ELSE LET found == find_one(progress, update.device_id, update.category) IN
            /\ doc' = [doc EXCEPT ![p] = found]
            /\ IF found # <<>>
               THEN \E badges \in BadgeLists(found[1], update) :
                        upd' = [upd EXCEPT ![p] = <<UpdateArgs(found[1], update, badges)>>]
               ELSE UNCHANGED upd
            /\ pc' = [pc EXCEPT ![p] = "write"]
            /\ UNCHANGED rsp
    /\ UNCHANGED <<db, storeVars, call, resp>>

\* Write with the deltas applied to the document as stored at the time of the write
WriteOnCurrent(p) ==
    /\ pc[p] = "write"
    /\ IF doc[p] # <<>>
       THEN LET cur == SelectSeq(progress, LAMBDA d : d._id = doc[p][1]._id)[1] IN
            /\ progress' = update_one(progress, UpdateArgs(cur, req[p][1], upd[p][1].badges))
            /\ UNCHANGED <<collections, nextId>>
       ELSE /\ progress' = create_document(progress, Payload(req[p][1]), nextId)
            /\ nextId' = nextId + 1
            /\ collections' = collections \cup {"progress"}
    /\ pc' = [pc EXCEPT ![p] = "reread"]
    /\ UNCHANGED <<db, item, call, resp, req, doc, upd, rsp>>

\* the write: update_one of the document read, or create_document
Write(p) ==
    /\ pc[p] = "write"
    /\ IF doc[p] # <<>>
       THEN /\ progress' = update_one(progress, upd[p][1])
            /\ UNCHANGED <<collections, nextId>>
       ELSE /\ progress' = create_document(progress, Payload(req[p][1]), nextId)
            /\ nextId' = nextId + 1
            /\ collections' = collections \cup {"progress"}
    /\ pc' = [pc EXCEPT ![p] = "reread"]
    /\ UNCHANGED <<db, item, call, resp, req, doc, upd, rsp>>

\* the final find_one and the return
Reread(p) ==
    /\ pc[p] = "reread"
    /\ rsp' = [rsp EXCEPT ![p] = Reply(progress, req[p][1])]
    /\ pc' = [pc EXCEPT ![p] = "done"]
    /\ UNCHANGED <<db, storeVars, call, resp, req, doc, upd>>

-----------------------------------------------------------------------------
(* Inputs explored *)

Devices == {"d1", "d2"}
ProgressCategories == {"colors", "numbers"}
Pairs == Devices \X ProgressCategories

\* (correct, attempts, points) of a request body: any integers pass ProgressUpdate
Deltas == {
    [correct |-> 1, attempts |-> 1, points |-> 10],
    [correct |-> 0, attempts |-> 1, points |-> 0],
    [correct |-> -1, attempts |-> 0, points |-> -10] }

\* badge of a request body: absent, empty or a name
BadgeInputs == {None, "", "star", "moon"}

Body(pair, delta, badge) ==
    [device_id |-> pair[1], category |-> pair[2], correct |-> delta.correct,
     attempts |-> delta.attempts, points |-> delta.points, badge |-> badge]

\* request bodies of the progress exploration: an answer with any badge input,
\* and a negative adjustment
Updates ==
    {Body(pair, delta, badge) :
        pair \in {<<"d1", "colors">>, <<"d1", "numbers">>, <<"d2", "colors">>},
        delta \in {d \in Deltas : d.points > 0},
        badge \in BadgeInputs}
    \cup
    {Body(pair, delta, None) :
        pair \in {<<"d1", "colors">>, <<"d1", "numbers">>, <<"d2", "colors">>},
        delta \in {d \in Deltas : d.points < 0}}

\* request bodies of the concurrent exploration
RaceUpdates ==
    {Body(pair, delta, badge) :
        pair \in {<<"d1", "colors">>, <<"d2", "colors">>},
        delta \in {d \in Deltas : d.attempts = 1},
        badge \in {"star"}}

\* request bodies of the whole-service exploration
ServiceUpdates ==
    {Body(pair, delta, badge) :
        pair \in {<<"d1", "colors">>, <<"d2", "colors">>},
        delta \in {d \in Deltas : d.points > 0},
        badge \in {"star"}}

\* category arguments of the read endpoints: absent, empty or a name
CategoryFilters == {None, "", "colors", "numbers", "fruits"}

\* category arguments of the read endpoints in the whole-service exploration
ServiceFilters == {None, "colors"}

\* category arguments of generate_quiz (a required string)
QuizCategories == {"colors", "numbers"}

\* category arguments of generate_quiz in the whole-service exploration
ServiceQuizCategories == {"numbers"}

\* documents a store can hold before the service starts: part of the catalog,
\* and items put there directly, one of them repeating a key of its category
ItemUniverse == <<
    [category |-> "colors", key |-> "red", label |-> "Red"],
    [category |-> "colors", key |-> "blue", label |-> "Blue"],
    [category |-> "colors", key |-> "green", label |-> "Green"],
    [category |-> "colors", key |-> "yellow", label |-> "Yellow"],
    [category |-> "colors", key |-> "red", label |-> "Crimson"],
    [category |-> "numbers", key |-> "1", label |-> "One"] >>

\* the documents of ItemUniverse at the positions S, in order, as stored
StoredItems(S) ==
    LET picked == SelectSeq([i \in 1..Len(ItemUniverse) |-> i], LAMBDA i : i \in S)
    IN [k \in 1..Len(picked) |-> WithId(ItemUniverse[picked[k]], k)]

-----------------------------------------------------------------------------
(* Specifications *)

NoCall == [ep |-> "none"]
NoResponse == [status |-> "none"]

InitRequests ==
    /\ call = NoCall
    /\ resp = NoResponse
    /\ pc = [p \in Procs |-> "idle"]
    /\ req = [p \in Procs |-> <<>>]
    /\ doc = [p \in Procs |-> <<>>]
    /\ upd = [p \in Procs |-> <<>>]
    /\ rsp = [p \in Procs |-> NoResponse]

\* a fresh deployment: an empty store, or no store at all
Init ==
    /\ db \in {"connected", "None"}
    /\ collections = {}
    /\ item = <<>>
    /\ progress = <<>>
    /\ nextId = 1
    /\ InitRequests

\* a deployment over a store that may already hold items
InitContent ==
    /\ db \in {"connected", "None"}
    /\ \E S \in SUBSET (1..Len(ItemUniverse)) :
          /\ db = "None" => S = {}
          /\ item = StoredItems(S)
          /\ nextId = Cardinality(S) + 1
          /\ collections \in (IF S = {} /\ db # "None" THEN {{}, {"item"}}
                              ELSE IF S = {} THEN {{}} ELSE {{"item"}})
    /\ progress = <<>>
    /\ InitRequests

\* True when no update_progress request is between two of its store calls
Quiet == \A p \in Procs : pc[p] \in {"idle", "done"}

\* TRUE once startup_event has run: the service takes requests after it
Started == call # NoCall

\* the whole service: startup, then requests interleaving
Next ==
    \/ ~Started /\ Startup
    \/ \E category \in ServiceFilters : Started /\ list_items(category)
    \/ Started /\ get_categories
    \/ \E category \in ServiceQuizCategories : Started /\ generate_quiz(category)
    \/ \E p \in Procs, update \in ServiceUpdates : Started /\ Call(p, update)
    \/ \E p \in Procs : Write(p)
    \/ \E p \in Procs : Reread(p)
    \/ \E device_id \in Devices, category \in ServiceFilters :
          Started /\ get_progress(device_id, category)

Spec == Init /\ [][Next]_vars

\* the content endpoints over any initial item collection
ContentNext ==
    \/ Startup
    \/ \E category \in CategoryFilters : list_items(category)
    \/ get_categories
    \/ \E category \in QuizCategories : generate_quiz(category)

ContentSpec == InitContent /\ [][ContentNext]_vars

\* update_progress requests handled one at a time: a request starts only when
\* none is between two of its store calls
ProgressNext ==
    \/ \E p \in Procs, update \in Updates : Quiet /\ Call(p, update)
    \/ \E p \in Procs : Write(p)
    \/ \E p \in Procs : Reread(p)

ProgressSpec == Init /\ [][ProgressNext]_vars

\* update_progress requests, interleaving
RaceNext ==
    \/ \E p \in Procs, update \in RaceUpdates : Call(p, update)
    \/ \E p \in Procs : Write(p)
    \/ \E p \in Procs : Reread(p)

RaceSpec == Init /\ [][RaceNext]_vars

-----------------------------------------------------------------------------
(* Properties of the Progress Tracker *)

\* the records of a (device_id, category) pair
RecordsOf(pair) == SelectSeq(progress, LAMBDA d : PairOf(d) = pair)

\* the three counters of a record, a request or an accumulated demand
Totals(r) == <<r.points, r.correct, r.attempts>>

\* True when no element occurs twice in the list
NoDuplicates(s) == \A i, j \in 1..Len(s) : s[i] = s[j] => i = j

\* C1: for every (device_id, category) pair the progress collection holds at most
\* one record, in every state reachable by update_progress requests from an empty
\* collection, their store operations interleaved or not.
C1_AtMostOneRecordPerPair ==
    \A pair \in Pairs : Len(RecordsOf(pair)) <= 1

\* the requests for the pair that have made their write
Written(pair) ==
    {p \in Procs : pc[p] \in {"reread", "done"} /\ PairOf(req[p][1]) = pair}

\* the sum of the deltas of the requests in P, counter by counter
RECURSIVE SumOfDeltas(_)
SumOfDeltas(P) ==
    IF P = {} THEN <<0, 0, 0>>
    ELSE LET p == CHOOSE p \in P : TRUE
             rest == SumOfDeltas(P \ {p})
         IN <<rest[1] + req[p][1].points,
              rest[2] + req[p][1].correct,
              rest[3] + req[p][1].attempts>>

\* C2: with the store connected and updates handled one at a time, a pair's record
\* exists once the pair was updated, its points, correct and attempts are the sums
\* of the deltas of the updates handled for the pair, and the record an update
\* returns is the record as that update left it (the sums up to and including
\* that update), with its _id as a string.
C2_TotalsAreSumsOfDeltas ==
    db = "connected" =>
        /\ \A pair \in Pairs :
              IF Written(pair) = {} THEN RecordsOf(pair) = <<>>
              ELSE /\ Len(RecordsOf(pair)) = 1
                   /\ Totals(RecordsOf(pair)[1]) = SumOfDeltas(Written(pair))
        /\ \A p \in Procs :
              pc[p] = "done" =>
                  /\ rsp[p].status = "ok"
                  /\ PairOf(rsp[p].progress) = PairOf(req[p][1])
                  /\ rsp[p].progress._id = Str(RecordsOf(PairOf(req[p][1]))[1]._id)
                  /\ Totals(rsp[p].progress) =
                        SumOfDeltas({q \in Written(PairOf(req[p][1])) : q <= p})
                  /\ (\A q \in Procs : q > p => pc[q] = "idle") =>
                        \A f \in DOMAIN rsp[p].progress \ {"_id"} :
                            rsp[p].progress[f] = RecordsOf(PairOf(req[p][1]))[1][f]

\* C2 witness: two identical updates (correct=1, attempts=1, points=10) were handled
\* for ("d1", "colors") and the second returned correct=2, attempts=2, points=20
C2_Witness ==
    /\ db = "connected"
    /\ pc[1] = "done" /\ pc[2] = "done"
    /\ req[1] = req[2]
    /\ PairOf(req[1][1]) = <<"d1", "colors">>
    /\ Totals(req[1][1]) = <<10, 1, 1>>
    /\ Totals(rsp[2].progress) = <<20, 2, 2>>
    /\ Totals(RecordsOf(<<"d1", "colors">>)[1]) = <<20, 2, 2>>

\* the requests that have run update_one on the record with this _id
Updaters(id) ==
    {p \in Procs : /\ pc[p] \in {"reread", "done"}
                   /\ doc[p] # <<>>
                   /\ doc[p][1]._id = id}

\* the counters a request computes from what it read
Computed(p) ==
    <<doc[p][1].points + req[p][1].points,
      doc[p][1].correct + req[p][1].correct,
      doc[p][1].attempts + req[p][1].attempts>>

\* C3: the read-then-write update is not atomic. When two concurrent requests for
\* the same existing record both read the same totals and both wrote, and no other
\* request updated the record, the stored totals are the totals read plus the
\* deltas of one of the two requests only: the other update is lost.
C3_LostUpdate ==
    \A i \in 1..Len(progress) :
        \A p, q \in Procs :
            ( /\ p # q
              /\ Updaters(progress[i]._id) = {p, q}
              /\ Totals(doc[p][1]) = Totals(doc[q][1]) )
            => Totals(progress[i]) \in {Computed(p), Computed(q)}

\* C3 witness: two requests that each add one attempt read the same record, both
\* wrote, and the record holds one attempt more than was read, not two
C3_Witness ==
    \E i \in 1..Len(progress) :
        \E p, q \in Procs :
            /\ p # q
            /\ Updaters(progress[i]._id) = {p, q}
            /\ Totals(doc[p][1]) = Totals(doc[q][1])
            /\ req[p][1].attempts = 1 /\ req[q][1].attempts = 1
            /\ req[p][1].points = 10 /\ req[q][1].points = 10
            /\ pc[p] = "done" /\ pc[q] = "done"
            /\ progress[i].attempts = doc[p][1].attempts + 1
            /\ progress[i].points = doc[p][1].points + 10

\* C4: points, correct and attempts of every record are non-negative in every
\* state and never decrease from one state to the next, whatever request bodies
\* the endpoint accepts.
C4_NonNegativeAndMonotone ==
    [][\A i \in 1..Len(progress') :
          /\ progress'[i].points >= 0
          /\ progress'[i].correct >= 0
          /\ progress'[i].attempts >= 0
          /\ i <= Len(progress) =>
                /\ progress'[i].points >= progress[i].points
                /\ progress'[i].correct >= progress[i].correct
                /\ progress'[i].attempts >= progress[i].attempts]_vars

\* the badge inputs provided by the requests for the pair that have made their write
Provided(pair) == {req[p][1].badge : p \in Written(pair)} \ {None}

\* badges never leave a record
BadgesKept ==
    \A i \in 1..Len(progress) :
        /\ i <= Len(progress')
        /\ Range(progress[i].badges) \subseteq Range(progress'[i].badges)

\* C5 as stated: under sequential updates a record's badges hold no duplicates,
\* every badge present before an update is present after it, and every badge
\* provided in an update is present afterwards, exactly once.
C5_ProvidedBadgePresent ==
    /\ [](\A pair \in Pairs : \A k \in 1..Len(RecordsOf(pair)) :
             /\ NoDuplicates(RecordsOf(pair)[k].badges)
             /\ Provided(pair) \subseteq Range(RecordsOf(pair)[k].badges))
    /\ [][BadgesKept]_vars

\* C5 amended: under sequential updates a record's badges hold no duplicates, every
\* badge present before an update is present after it, and every non-empty badge
\* provided in an update is present afterwards, exactly once; an empty-string badge
\* is treated as no badge and is not stored.
C5_NonEmptyBadgePresentOnce ==
    /\ [](\A pair \in Pairs : \A k \in 1..Len(RecordsOf(pair)) :
             /\ NoDuplicates(RecordsOf(pair)[k].badges)
             /\ Range(RecordsOf(pair)[k].badges) = Provided(pair) \ {""})
    /\ [][BadgesKept]_vars

\* C5 witness: "star" was the badge of both updates handled for a pair, the second
\* of them an update of the existing record, and its badges are ["star"]
C5_Witness ==
    \E pair \in Pairs :
        /\ Cardinality(Written(pair)) = 2
        /\ \A p \in Written(pair) : req[p][1].badge = "star" /\ pc[p] = "done"
        /\ Len(RecordsOf(pair)) = 1
        /\ RecordsOf(pair)[1].badges = <<"star">>

\* C6: without a store (db is None) update_progress answers status "ok" with no
\* progress field, get_progress answers an empty list, and nothing is persisted:
\* the store stays as it was at start whatever requests are handled.
C6_NoStoreNothingPersisted ==
    db = "None" =>
        /\ progress = <<>> /\ item = <<>> /\ collections = {} /\ nextId = 1
        /\ \A p \in Procs :
              pc[p] # "idle" =>
                  /\ pc[p] = "done"
                  /\ rsp[p].status = "ok"
                  /\ "progress" \notin DOMAIN rsp[p]
        /\ call.ep = "get_progress" => resp.progress = <<>>

\* C6 witness: without a store, two updates were acknowledged and a get_progress
\* was answered
C6_Witness ==
    /\ db = "None"
    /\ pc[1] = "done" /\ pc[2] = "done"
    /\ rsp[2].status = "ok"
    /\ call.ep = "get_progress"
    /\ call.device_id = req[1][1].device_id

-----------------------------------------------------------------------------
(* Properties of the content endpoints *)

Min(a, b) == IF a < b THEN a ELSE b

\* the positions of the stored items of a category
StoredOf(category) == {i \in 1..Len(item) : item[i].category = category}

\* pool_size: the number of stored items of the category, or 4 (the fallback pool)
\* when there is none or no store
PoolSize(category) ==
    IF db = "None" \/ StoredOf(category) = {} THEN 4 ELSE Cardinality(StoredOf(category))

\* True when no two stored items of the category share a key
KeysDistinct(category) ==
    \A i, j \in StoredOf(category) : item[i].key = item[j].key => i = j

\* the number of options of a quiz response that carry the answer's key
AnswerKeyCount(r) ==
    Cardinality({i \in 1..Len(r.options) : r.options[i].key = r.answer.key})

\* C7 as stated: for every category and store content generate_quiz returns
\* min(4, pool_size) options and the answer's key occurs exactly once among the
\* option keys, whatever the random choices.
C7_AnswerKeyExactlyOnce ==
    call.ep = "generate_quiz" =>
        /\ Len(resp.options) = Min(4, PoolSize(call.category))
        /\ AnswerKeyCount(resp) = 1

\* C7 amended: generate_quiz returns min(4, pool_size) options and the answer's key
\* occurs among the option keys, exactly once when no two items of the category in
\* the store share a key; the store does not enforce that, and with a repeated key
\* the answer's key can occur more than once.
C7_AnswerKeyAmongOptions ==
    call.ep = "generate_quiz" =>
        /\ Len(resp.options) = Min(4, PoolSize(call.category))
        /\ AnswerKeyCount(resp) >= 1
        /\ KeysDistinct(call.category) => AnswerKeyCount(resp) = 1

\* C7 witness: a quiz drawn from five stored "colors" items has four options
\* and the answer's key once among them
C7_Witness ==
    /\ db = "connected"
    /\ Cardinality(StoredOf("colors")) = 5
    /\ call.ep = "generate_quiz"
    /\ call.category = "colors"
    /\ Len(resp.options) = 4
    /\ \E i \in 1..Len(resp.options) : resp.options[i].label = "Crimson"
    /\ AnswerKeyCount(resp) = 1

\* True when the seed step finds a connected store whose item collection is
\* missing or holds no document
StoreEmpty ==
    db = "connected" /\ ("item" \notin collections \/ Len(item) = 0)

\* C8: the seed step inserts the 15-item catalog exactly when the store is connected
\* and the item collection is missing or empty; otherwise (a partial catalog, a
\* seeded store, no store) it leaves the store unchanged.
C8_SeedsOnlyWhenEmpty ==
    [][call'.ep = "startup" =>
          IF StoreEmpty
          THEN /\ Len(item') = 15
               /\ \A i \in 1..Len(item') :
                     /\ \A f \in DOMAIN seed_items[i] : item'[i][f] = seed_items[i][f]
                     /\ \A j \in 1..Len(item') : item'[i]._id = item'[j]._id => i = j
               /\ "item" \in collections'
               /\ progress' = progress
          ELSE UNCHANGED storeVars]_vars

\* C8 witness: the catalog was inserted into a store whose item collection was empty
C8_Witness ==
    /\ db = "connected"
    /\ Len(item) = 15
    /\ \A i \in 1..15 : item[i].key = seed_items[i].key
    /\ call.ep = "startup"

\* the items list_items selects from, as returned: the sample without a store, the
\* stored items with their _id as a string otherwise
Listable ==
    IF db = "None" THEN sample
    ELSE [i \in 1..Len(item) |-> [item[i] EXCEPT !._id = ToString(item[i]._id)]]

\* C9 as stated: for every category c list_items(c) returns exactly the items
\* whose category equals c, and list_items() without a filter returns every item;
\* without a store the same holds of the 3-item sample.
C9_ExactlyTheCategory ==
    call.ep = "list_items" =>
        resp.items = IF call.category = None THEN Listable
                     ELSE SelectSeq(Listable, LAMBDA d : d.category = call.category)

\* C9 amended: for every non-empty category c list_items(c) returns exactly the
\* items whose category equals c; without a filter, or with the empty string as
\* category, it returns every item; without a store the same holds of the sample.
C9_ExactlyTheNonEmptyCategory ==
    call.ep = "list_items" =>
        resp.items = IF call.category \in {None, ""} THEN Listable
                     ELSE SelectSeq(Listable, LAMBDA d : d.category = call.category)

\* C9 witness: a store holding "colors" and "numbers" items answered a request
\* for "numbers" with the "numbers" items only
C9_Witness ==
    /\ db = "connected"
    /\ StoredOf("colors") # {}
    /\ StoredOf("numbers") # {}
    /\ call.ep = "list_items"
    /\ call.category = "numbers"
    /\ Len(resp.items) = Cardinality(StoredOf("numbers"))
    /\ \A i \in 1..Len(resp.items) : resp.items[i].category = "numbers"

\* the read endpoints
ReadEndpoints == {"get_progress", "list_items", "get_categories", "generate_quiz"}

\* C10: an update_progress request for a pair leaves the records of every other
\* pair as they are (its write is the only step of it that changes the store), a
\* record keeps its _id, device_id and category and is never deleted, and the read
\* endpoints change nothing in the store.
C10_UpdateTouchesOnlyItsPair ==
    [][/\ \A i \in 1..Len(progress) :
             /\ i <= Len(progress')
             /\ progress'[i]._id = progress[i]._id
             /\ PairOf(progress'[i]) = PairOf(progress[i])
       /\ \A p \in Procs :
             pc'[p] # pc[p] =>
                 /\ \A i \in 1..Len(progress) :
                       PairOf(progress[i]) # PairOf(req'[p][1]) => progress'[i] = progress[i]
                 /\ \A i \in (Len(progress) + 1)..Len(progress') :
                       PairOf(progress'[i]) = PairOf(req'[p][1])
                 /\ item' = item
                 /\ pc[p] # "write" => UNCHANGED storeVars
       /\ (pc' = pc /\ call'.ep \in ReadEndpoints) => UNCHANGED storeVars]_vars

\* C10 witness: ("d1", "colors") was updated twice and ("d2", "colors") once, and
\* each has its own record
C10_Witness ==
    /\ Quiet
    /\ Cardinality(Written(<<"d1", "colors">>)) = 2
    /\ Cardinality(Written(<<"d2", "colors">>)) = 1
    /\ Len(progress) = 2
    /\ Totals(RecordsOf(<<"d1", "colors">>)[1]) = <<20, 2, 2>>
    /\ Totals(RecordsOf(<<"d2", "colors">>)[1]) = <<10, 1, 1>>

====
